---------------------------- MODULE Spec2Model ----------------------------
(***************************************************************************)
(* Model of the ride-sharing domain program src/c++/main.cpp: the Ride     *)
(* hierarchy (StandardRide, PremiumRide), Driver, Rider, and the state of  *)
(* the std::cout stream their printing methods share.                      *)
(*                                                                         *)
(* A double is a fixed-point number counted in thousandths (Scale), so     *)
(* 5.0 miles is 5000 and the rate 1.50 is 1500.  A shared_ptr<Ride> is an  *)
(* index into the sequence rides of the rides allocated so far, Null (0)   *)
(* being the empty pointer.  Text written to std::cout by the last call is *)
(* kept in out, one string per << insertion; the exception the last call   *)
(* threw (or NoError) is kept in err.                                      *)
(***************************************************************************)
EXTENDS Integers, Sequences, FiniteSets

VARIABLES
    rides,      \* the Ride objects made so far (make_shared), by handle
    drivers,    \* the Driver objects made so far
    riders,     \* the Rider objects made so far
    cout,       \* formatting state of std::cout: floatfield and precision
    out,        \* what the last call wrote to std::cout
    err,        \* the exception the last call threw, NoError when it returned
    addLog,     \* history: per driver, the arguments of the addRide calls that returned
    reqLog,     \* history: per rider, the arguments of the requestRide calls that returned
    firstFare,  \* history: per ride, <<the fare after its first calculateFare>>, <<>> before it
    recalc      \* history: the ride whose calculateFare the last call repeated, else Null

vars == <<rides, drivers, riders, cout, out, err, addLog, reqLog, firstFare, recalc>>

(***************************************************************************)
(* Bounds of the model.                                                    *)
(***************************************************************************)
\* rides constructed in a run
MaxRides == 2

\* rides appended to histories (addRide and requestRide together) in a run
MaxHist == 2

\* distances drawn by SpecRideInputs run from -NegDist to MaxDist tenths of a mile
MaxDist == 50

NegDist == 3

\* ratings drawn by SpecDriverInputs run from -RatingMargin to 5.0 + RatingMargin tenths
RatingMargin == 10

(***************************************************************************)
(* Numbers.                                                                *)
(***************************************************************************)
\* thousandths per unit of a double
Scale == 1000

StandardRate == 1500

PremiumRate == 3000

MaxRating == 5000

FarePrecision == 2

\* main has one Driver object and one Rider object
NumDrivers == 1

NumRiders == 1

Null == 0

Kinds == {"Standard", "Premium"}

NoError == [type |-> "none", what |-> ""]

InvalidArgument(msg) == [type |-> "invalid_argument", what |-> msg]

\* std::cout before any manipulator: default floatfield, precision 6
InitialStream == [fixed |-> FALSE, precision |-> 6]

(***************************************************************************)
(* operator<< for int and double.                                          *)
(***************************************************************************)
DigitStr(n) ==
    CASE n = 0 -> "0" [] n = 1 -> "1" [] n = 2 -> "2" [] n = 3 -> "3"
      [] n = 4 -> "4" [] n = 5 -> "5" [] n = 6 -> "6" [] n = 7 -> "7"
      [] n = 8 -> "8" [] n = 9 -> "9"

RECURSIVE NatStr(_)
NatStr(n) == IF n < 10 THEN DigitStr(n) ELSE NatStr(n \div 10) \o DigitStr(n % 10)

IntStr(n) == IF n < 0 THEN "-" \o NatStr(-n) ELSE NatStr(n)

RECURSIVE Pow10(_)
Pow10(k) == IF k = 0 THEN 1 ELSE 10 * Pow10(k - 1)

\* n written with exactly k digits (leading zeros kept)
RECURSIVE PadStr(_, _)
PadStr(n, k) == IF k = 0 THEN "" ELSE PadStr(n \div 10, k - 1) \o DigitStr(n % 10)

\* the k-digit fraction n without its trailing zeros ("" when n = 0)
RECURSIVE TrimStr(_, _)
TrimStr(n, k) ==
    IF k = 0 \/ n = 0 THEN ""
    ELSE IF n % 10 = 0 THEN TrimStr(n \div 10, k - 1)
    ELSE PadStr(n, k)

Abs(v) == IF v < 0 THEN -v ELSE v

\* std::fixed with precision p (p <= 3): rounded to p decimals, all p shown
FormatFixed(v, p) ==
    LET unit == Pow10(3 - p)
        r == (Abs(v) + (unit \div 2)) \div unit
    IN (IF v < 0 THEN "-" ELSE "")
       \o NatStr(r \div Pow10(p))
       \o (IF p = 0 THEN "" ELSE "." \o PadStr(r % Pow10(p), p))

\* the default floatfield at the default precision 6 (%g): for the values of
\* the model (magnitude below 1000, three decimals at most) every digit is
\* significant, and trailing zeros and a bare decimal point are dropped
FormatGeneral(v) ==
    LET a == Abs(v)
        frac == TrimStr(a % Scale, 3)
    IN (IF v < 0 THEN "-" ELSE "")
       \o NatStr(a \div Scale)
       \o (IF frac = "" THEN "" ELSE "." \o frac)

FormatDouble(v, fmt) ==
    IF fmt.fixed THEN FormatFixed(v, fmt.precision) ELSE FormatGeneral(v)

\* the stream after << std::fixed << std::setprecision(2): both are sticky
SetFixed2(fmt) == [fmt EXCEPT !.fixed = TRUE, !.precision = FarePrecision]

(***************************************************************************)
(* Ride, StandardRide, PremiumRide.                                        *)
(***************************************************************************)
Handles == 1..Len(rides)

\* Ride::Ride's member initialisers: fare(0.0)
NewRide(kind, id, pickup, dropoff, dist) ==
    [kind |-> kind, rideID |-> id, pickupLocation |-> pickup,
     dropoffLocation |-> dropoff, distance |-> dist, fare |-> 0]

\* PremiumRide::calculateFare copied from StandardRide with its rate
RateCopied(kind) == StandardRate

\* the per-mile rate of StandardRide::calculateFare / PremiumRide::calculateFare
Rate(kind) == IF kind = "Standard" THEN StandardRate ELSE PremiumRate

\* calculateFare adding to the fare (fare += distance * rate)
ComputeFareAdding(ride) == ride.fare + (ride.distance * Rate(ride.kind)) \div Scale

\* fare = distance * rate, as the override of the ride's dynamic type computes it
ComputeFare(ride) == (ride.distance * Rate(ride.kind)) \div Scale

getFare(r) == rides[r].fare

getDistance(r) == rides[r].distance

getRideID(r) == rides[r].rideID

\* the insertions of Ride::rideDetails, made under the stream state fmt
BaseDetails(ride, fmt) ==
    << "Ride ID: ", IntStr(ride.rideID),
       "\nPickup: ", ride.pickupLocation,
       "\nDropoff: ", ride.dropoffLocation,
       "\nDistance: ", FormatDouble(ride.distance, fmt), " miles",
       "\nFare: $", FormatDouble(ride.fare, SetFixed2(fmt)) >>

\* the label the override inserts after Ride::rideDetails()
KindLabel(kind) ==
    IF kind = "Standard" THEN " (Standard Ride)" ELSE " (Premium Ride)"

\* what ride->rideDetails() writes under the stream state fmt
RideDetailsOut(ride, fmt) == BaseDetails(ride, fmt) \o <<KindLabel(ride.kind), "\n">>

\* Ride::Ride rejecting only dist < 0
ConstructRideZeroOk(kind, id, pickup, dropoff, dist) ==
    /\ IF dist < 0
         THEN /\ err' = InvalidArgument("Distance must be greater than 0")
              /\ UNCHANGED <<rides, firstFare>>
         ELSE /\ rides' = Append(rides, NewRide(kind, id, pickup, dropoff, dist))
              /\ firstFare' = Append(firstFare, <<>>)
              /\ err' = NoError
    /\ out' = <<>>
    /\ recalc' = Null
    /\ UNCHANGED <<drivers, riders, cout, addLog, reqLog>>

\* std::make_shared<StandardRide / PremiumRide>(id, pickup, dropoff, dist)
ConstructRide(kind, id, pickup, dropoff, dist) ==
    /\ IF dist <= 0
         THEN /\ err' = InvalidArgument("Distance must be greater than 0")
              /\ UNCHANGED <<rides, firstFare>>
         ELSE /\ rides' = Append(rides, NewRide(kind, id, pickup, dropoff, dist))
              /\ firstFare' = Append(firstFare, <<>>)
              /\ err' = NoError
    /\ out' = <<>>
    /\ recalc' = Null
    /\ UNCHANGED <<drivers, riders, cout, addLog, reqLog>>

\* rides[r]->calculateFare()
CalculateFare(r) ==
    /\ r \in Handles
    /\ rides' = [rides EXCEPT ![r].fare = ComputeFare(rides[r])]
    /\ firstFare' = [firstFare EXCEPT ![r] = IF @ = <<>> THEN <<rides'[r].fare>> ELSE @]
    /\ recalc' = IF firstFare[r] = <<>> THEN Null ELSE r
    /\ err' = NoError
    /\ out' = <<>>
    /\ UNCHANGED <<drivers, riders, cout, addLog, reqLog>>

\* rideDetails computing the fare itself before printing it
RideDetailsComputing(r) ==
    /\ r \in Handles
    /\ rides' = [rides EXCEPT ![r].fare = ComputeFare(rides[r])]
    /\ out' = RideDetailsOut(rides'[r], cout)
    /\ cout' = SetFixed2(cout)
    /\ err' = NoError
    /\ recalc' = Null
    /\ UNCHANGED <<drivers, riders, addLog, reqLog, firstFare>>

\* rides[r]->rideDetails()
RideDetails(r) ==
    /\ r \in Handles
    /\ UNCHANGED <<rides, drivers, riders, addLog, reqLog, firstFare>>
    /\ err' = NoError
    /\ recalc' = Null
    /\ cout' = SetFixed2(cout)
    /\ out' = RideDetailsOut(rides[r], cout)

(***************************************************************************)
(* Driver.                                                                 *)
(***************************************************************************)
NewDriver(id, name, rating) ==
    [driverID |-> id, name |-> name, rating |-> rating, assignedRides |-> <<>>]

\* Driver::Driver rejecting the two ends of the range as well
ConstructDriverExclusive(id, name, rating) ==
    /\ IF rating <= 0 \/ rating >= MaxRating
         THEN /\ err' = InvalidArgument("Rating must be between 0 and 5")
              /\ UNCHANGED <<drivers, addLog>>
         ELSE /\ drivers' = Append(drivers, NewDriver(id, name, rating))
              /\ addLog' = Append(addLog, <<>>)
              /\ err' = NoError
    /\ out' = <<>>
    /\ recalc' = Null
    /\ UNCHANGED <<rides, riders, cout, reqLog, firstFare>>

\* Driver driver(id, name, rating)
ConstructDriver(id, name, rating) ==
    /\ IF rating < 0 \/ rating > MaxRating
         THEN /\ err' = InvalidArgument("Rating must be between 0 and 5")
              /\ UNCHANGED <<drivers, addLog>>
         ELSE /\ drivers' = Append(drivers, NewDriver(id, name, rating))
              /\ addLog' = Append(addLog, <<>>)
              /\ err' = NoError
    /\ out' = <<>>
    /\ recalc' = Null
    /\ UNCHANGED <<rides, riders, cout, reqLog, firstFare>>

\* addRide checking its argument only after the push_back
AddRideCheckLate(d, ride) ==
    /\ d \in DOMAIN drivers
    /\ drivers' = [drivers EXCEPT ![d].assignedRides = Append(@, ride)]
    /\ err' = IF ride = Null THEN InvalidArgument("Invalid ride pointer") ELSE NoError
    /\ addLog' = [addLog EXCEPT ![d] = IF err' = NoError THEN Append(@, ride) ELSE @]
    /\ out' = <<>>
    /\ recalc' = Null
    /\ UNCHANGED <<rides, riders, cout, reqLog, firstFare>>

\* addRide inserting at the front of the history
AddRideFront(d, ride) ==
    /\ d \in DOMAIN drivers
    /\ IF ride = Null
         THEN /\ err' = InvalidArgument("Invalid ride pointer")
              /\ UNCHANGED drivers
         ELSE /\ drivers' = [drivers EXCEPT ![d].assignedRides = <<ride>> \o @]
              /\ err' = NoError
    /\ addLog' = [addLog EXCEPT ![d] = IF err' = NoError THEN Append(@, ride) ELSE @]
    /\ out' = <<>>
    /\ recalc' = Null
    /\ UNCHANGED <<rides, riders, cout, reqLog, firstFare>>

\* drivers[d].addRide(ride)
AddRide(d, ride) ==
    /\ d \in DOMAIN drivers
    /\ IF ride = Null
         THEN /\ err' = InvalidArgument("Invalid ride pointer")
              /\ UNCHANGED drivers
         ELSE /\ drivers' = [drivers EXCEPT ![d].assignedRides = Append(@, ride)]
              /\ err' = NoError
    /\ addLog' = [addLog EXCEPT ![d] = IF err' = NoError THEN Append(@, ride) ELSE @]
    /\ out' = <<>>
    /\ recalc' = Null
    /\ UNCHANGED <<rides, riders, cout, reqLog, firstFare>>

Range(q) == {q[i] : i \in DOMAIN q}

\* getDriverInfo counting each ride once however often it was added
DriverInfoOutDistinct(driver, fmt) ==
    << "Driver ID: ", IntStr(driver.driverID),
       "\nName: ", driver.name,
       "\nRating: ", FormatDouble(driver.rating, SetFixed2(fmt)),
       "\nCompleted Rides: ", IntStr(Cardinality(Range(driver.assignedRides))), "\n" >>

\* the insertions of Driver::getDriverInfo, made under the stream state fmt
DriverInfoOut(driver, fmt) ==
    << "Driver ID: ", IntStr(driver.driverID),
       "\nName: ", driver.name,
       "\nRating: ", FormatDouble(driver.rating, SetFixed2(fmt)),
       "\nCompleted Rides: ", IntStr(Len(driver.assignedRides)), "\n" >>

\* drivers[d].getDriverInfo()
GetDriverInfo(d) ==
    /\ d \in DOMAIN drivers
    /\ UNCHANGED <<rides, drivers, riders, addLog, reqLog, firstFare>>
    /\ err' = NoError
    /\ recalc' = Null
    /\ cout' = SetFixed2(cout)
    /\ out' = DriverInfoOut(drivers[d], cout)

(***************************************************************************)
(* Rider.                                                                  *)
(***************************************************************************)
NewRider(id, name) == [riderID |-> id, name |-> name, requestedRides |-> <<>>]

\* Rider rider(id, name)
ConstructRider(id, name) ==
    /\ riders' = Append(riders, NewRider(id, name))
    /\ reqLog' = Append(reqLog, <<>>)
    /\ err' = NoError
    /\ out' = <<>>
    /\ recalc' = Null
    /\ UNCHANGED <<rides, drivers, cout, addLog, firstFare>>

\* riders[p].requestRide(ride)
RequestRide(p, ride) ==
    /\ p \in DOMAIN riders
    /\ IF ride = Null
         THEN /\ err' = InvalidArgument("Invalid ride pointer")
              /\ UNCHANGED riders
         ELSE /\ riders' = [riders EXCEPT ![p].requestedRides = Append(@, ride)]
              /\ err' = NoError
    /\ reqLog' = [reqLog EXCEPT ![p] = IF err' = NoError THEN Append(@, ride) ELSE @]
    /\ out' = <<>>
    /\ recalc' = Null
    /\ UNCHANGED <<rides, drivers, cout, addLog, firstFare>>

\* the insertions of the first statement of Rider::viewRides
RiderHeader(rider) ==
    << "Rider ID: ", IntStr(rider.riderID),
       "\nName: ", rider.name,
       "\nRequested Rides History:", "\n" >>

Sentinel == "No rides requested yet."

\* the loop of viewRides running from the newest ride to the oldest
RECURSIVE ViewLoopNewestFirst(_, _)
ViewLoopNewestFirst(hs, fmt) ==
    IF hs = <<>> THEN <<>>
    ELSE RideDetailsOut(rides[hs[Len(hs)]], fmt)
         \o ViewLoopNewestFirst(SubSeq(hs, 1, Len(hs) - 1), SetFixed2(fmt))

\* the loop of Rider::viewRides over the handles hs, entered under the stream state fmt
RECURSIVE ViewLoop(_, _)
ViewLoop(hs, fmt) ==
    IF hs = <<>> THEN <<>>
    ELSE RideDetailsOut(rides[Head(hs)], fmt) \o ViewLoop(Tail(hs), SetFixed2(fmt))

\* what rider.viewRides() writes under the stream state fmt
ViewRidesOut(rider, fmt) ==
    RiderHeader(rider)
    \o (IF rider.requestedRides = <<>> THEN <<Sentinel, "\n">>
        ELSE ViewLoop(rider.requestedRides, fmt))

\* riders[p].viewRides()
ViewRides(p) ==
    /\ p \in DOMAIN riders
    /\ UNCHANGED <<rides, drivers, riders, addLog, reqLog, firstFare>>
    /\ err' = NoError
    /\ recalc' = Null
    /\ cout' = IF riders[p].requestedRides = <<>> THEN cout ELSE SetFixed2(cout)
    /\ out' = ViewRidesOut(riders[p], cout)

(***************************************************************************)
(* The program: any sequence of calls on the objects made so far, with the *)
(* arguments of main's scenarios.                                          *)
(***************************************************************************)
RideIDs == {1}

Pickups == {"Home"}

Dropoffs == {"Work"}

Distances == {-5000, 5000}

DriverIDs == {101}

DriverNames == {"John Doe"}

Ratings == {4800, 6000}

RiderIDs == {201}

RiderNames == {"Alice"}

RECURSIVE SumLen(_)
SumLen(q) == IF q = <<>> THEN 0 ELSE Len(Head(q)) + SumLen(Tail(q))

\* rides appended to histories so far
Appended == SumLen(addLog) + SumLen(reqLog)

Init ==
    /\ rides = <<>>
    /\ drivers = <<>>
    /\ riders = <<>>
    /\ cout = InitialStream
    /\ out = <<>>
    /\ err = NoError
    /\ addLog = <<>>
    /\ reqLog = <<>>
    /\ firstFare = <<>>
    /\ recalc = Null

Next ==
    \/ \E kind \in Kinds, id \in RideIDs, pickup \in Pickups,
          dropoff \in Dropoffs, dist \in Distances :
          /\ dist > 0 => Len(rides) < MaxRides
          /\ ConstructRide(kind, id, pickup, dropoff, dist)
    \/ \E r \in Handles : CalculateFare(r)
    \/ \E r \in Handles : RideDetails(r)
    \/ \E id \in DriverIDs, name \in DriverNames, rating \in Ratings :
          /\ (0 <= rating /\ rating <= MaxRating) => Len(drivers) < NumDrivers
          /\ ConstructDriver(id, name, rating)
    \/ \E d \in DOMAIN drivers, ride \in {Null} \cup Handles :
          /\ ride # Null => Appended < MaxHist
          /\ AddRide(d, ride)
    \/ \E d \in DOMAIN drivers : GetDriverInfo(d)
    \/ \E id \in RiderIDs, name \in RiderNames :
          /\ Len(riders) < NumRiders
          /\ ConstructRider(id, name)
    \/ \E p \in DOMAIN riders, ride \in {Null} \cup Handles :
          /\ ride # Null => Appended < MaxHist
          /\ RequestRide(p, ride)
    \/ \E p \in DOMAIN riders : ViewRides(p)

Spec == Init /\ [][Next]_vars

(***************************************************************************)
(* The constructors and the fare computation over ranges of arguments:     *)
(* one ride, and one driver, constructed from any argument of the ranges.  *)
(***************************************************************************)
InputRideIDs == {1, 2}

Tenth == Scale \div 10

\* the distances main passes to the ride constructors
MainDistances == {5000, 15000, 3000, 12000, 2000, 4000, 8000, -5000}

InputDistances == {t * Tenth : t \in (-NegDist)..MaxDist} \cup MainDistances

InputRatings == {t * Tenth : t \in (-RatingMargin)..((MaxRating \div Tenth) + RatingMargin)}

NextRideInputs ==
    \/ \E kind \in Kinds, id \in InputRideIDs, pickup \in Pickups,
          dropoff \in Dropoffs, dist \in InputDistances :
          /\ dist > 0 => rides = <<>>
          /\ ConstructRide(kind, id, pickup, dropoff, dist)
    \/ \E r \in Handles : CalculateFare(r)
    \/ \E r \in Handles : RideDetails(r)

SpecRideInputs == Init /\ [][NextRideInputs]_vars

NextDriverInputs ==
    \/ \E id \in DriverIDs, name \in DriverNames, rating \in InputRatings :
          /\ (0 <= rating /\ rating <= MaxRating) => drivers = <<>>
          /\ ConstructDriver(id, name, rating)
    \/ \E d \in DOMAIN drivers : GetDriverInfo(d)

SpecDriverInputs == Init /\ [][NextDriverInputs]_vars


(***************************************************************************)
(* The claims.                                                             *)
(***************************************************************************)
IsPrefix(q, t) == Len(q) <= Len(t) /\ SubSeq(t, 1, Len(q)) = q

Threw == err.type = "invalid_argument"

\* C1: the "Completed Rides" count getDriverInfo writes equals the number of
\* addRide calls on that driver that returned; a call with a ride adds
\* exactly one entry, the same ride again included, and a call with the null
\* pointer throws and adds none.
C1_CompletedRidesCount ==
    [][/\ \A d \in DOMAIN drivers :
            GetDriverInfo(d) =>
                /\ out'[7] = "\nCompleted Rides: "
                /\ out'[8] = IntStr(Len(addLog[d]))
       /\ \A d \in DOMAIN drivers, ride \in {Null} \cup Handles :
            AddRide(d, ride) =>
                /\ (ride = Null) <=> Threw'
                /\ Len(drivers'[d].assignedRides) =
                      Len(drivers[d].assignedRides) + (IF ride = Null THEN 0 ELSE 1)
      ]_vars

\* getDriverInfo has reported 2 for a driver given the same ride twice
C1_Witness ==
    /\ drivers # <<>>
    /\ Len(out) = 9
    /\ out[1] = "Driver ID: "
    /\ out[8] = "2"
    /\ Len(addLog[1]) = 2
    /\ addLog[1][1] = addLog[1][2]

\* C5: addRide and requestRide with the null pointer throw invalid_argument
\* and change no driver, rider or ride; with a ride they return and append
\* exactly that handle at the end of the receiver's history, changing nothing
\* else of any driver, rider or ride.
C5_NullRejectedElseAppended ==
    [][/\ \A d \in DOMAIN drivers, ride \in {Null} \cup Handles :
            AddRide(d, ride) =>
                IF ride = Null
                  THEN Threw' /\ UNCHANGED <<drivers, riders, rides>>
                  ELSE /\ err' = NoError
                       /\ drivers' = [drivers EXCEPT
                              ![d].assignedRides = drivers[d].assignedRides \o <<ride>>]
                       /\ UNCHANGED <<riders, rides>>
       /\ \A p \in DOMAIN riders, ride \in {Null} \cup Handles :
            RequestRide(p, ride) =>
                IF ride = Null
                  THEN Threw' /\ UNCHANGED <<drivers, riders, rides>>
                  ELSE /\ err' = NoError
                       /\ riders' = [riders EXCEPT
                              ![p].requestedRides = riders[p].requestedRides \o <<ride>>]
                       /\ UNCHANGED <<drivers, rides>>
      ]_vars

\* a null pointer has just been rejected while a driver and a rider hold rides
C5_Witness ==
    /\ Threw
    /\ err.what = "Invalid ride pointer"
    /\ drivers # <<>> /\ drivers[1].assignedRides # <<>>
    /\ riders # <<>> /\ riders[1].requestedRides # <<>>

\* C10: histories only grow at the end: in every step each driver's and each
\* rider's history is a prefix of the history after the step, and every
\* history is the sequence of the rides passed to the addRide / requestRide
\* calls that returned, in call order.
C10_HistoriesAppendOnly ==
    [][/\ DOMAIN drivers \subseteq DOMAIN drivers'
       /\ DOMAIN riders \subseteq DOMAIN riders'
       /\ \A d \in DOMAIN drivers :
            IsPrefix(drivers[d].assignedRides, drivers'[d].assignedRides)
       /\ \A p \in DOMAIN riders :
            IsPrefix(riders[p].requestedRides, riders'[p].requestedRides)
       /\ \A d \in DOMAIN drivers' : drivers'[d].assignedRides = addLog'[d]
       /\ \A p \in DOMAIN riders' : riders'[p].requestedRides = reqLog'[p]
      ]_vars

\* a driver holds two different rides, the later-made one added first
C10_Witness ==
    /\ drivers # <<>>
    /\ Len(drivers[1].assignedRides) = 2
    /\ drivers[1].assignedRides[1] > drivers[1].assignedRides[2]


\* C2: once calculateFare has run on a ride, its fare is 1.50 times its
\* distance if it is a StandardRide and 3.00 times its distance if it is a
\* PremiumRide, whatever its id and locations.
C2_FareIsRateTimesDistance ==
    \A r \in Handles :
        firstFare[r] # <<>> =>
            IF rides[r].kind = "Standard"
              THEN 2 * getFare(r) = 3 * getDistance(r)
              ELSE rides[r].kind = "Premium" /\ getFare(r) = 3 * getDistance(r)

\* a StandardRide of 5.0 miles has the fare 7.50
C2_Witness ==
    \E r \in Handles :
        /\ rides[r].kind = "Standard"
        /\ getDistance(r) = 5000
        /\ firstFare[r] # <<>>
        /\ getFare(r) = 7500

\* C3: constructing a ride with a distance <= 0 throws invalid_argument and
\* makes no ride; with a distance > 0 it returns and makes exactly the ride
\* of its arguments; so every ride there is has a distance > 0.
C3_RideDistanceValidated ==
    [][/\ \A r \in 1..Len(rides') : rides'[r].distance > 0
       /\ \A kind \in Kinds, id \in InputRideIDs, pickup \in Pickups,
             dropoff \in Dropoffs, dist \in InputDistances :
            ConstructRide(kind, id, pickup, dropoff, dist) =>
                IF dist <= 0
                  THEN /\ Threw'
                       /\ err'.what = "Distance must be greater than 0"
                       /\ rides' = rides
                  ELSE /\ err' = NoError
                       /\ Len(rides') = Len(rides) + 1
                       /\ SubSeq(rides', 1, Len(rides)) = rides
                       /\ rides'[Len(rides')].kind = kind
                       /\ rides'[Len(rides')].distance = dist
      ]_vars

\* a construction has just been refused while a ride of 0.1 miles exists
C3_Witness ==
    /\ Threw
    /\ err.what = "Distance must be greater than 0"
    /\ rides # <<>>
    /\ rides[1].distance = 100

\* C4: constructing a driver with a rating r, 0 <= r <= 5, returns and makes
\* the driver; with r < 0 or r > 5 it throws invalid_argument and makes none;
\* so every driver there is has a rating from 0 to 5.
C4_DriverRatingValidated ==
    [][/\ \A d \in DOMAIN drivers' :
            0 <= drivers'[d].rating /\ drivers'[d].rating <= 5 * Scale
       /\ \A id \in DriverIDs, name \in DriverNames, rating \in InputRatings :
            ConstructDriver(id, name, rating) =>
                IF 0 <= rating /\ rating <= 5 * Scale
                  THEN /\ err' = NoError
                       /\ Len(drivers') = Len(drivers) + 1
                       /\ SubSeq(drivers', 1, Len(drivers)) = drivers
                       /\ drivers'[Len(drivers')].rating = rating
                  ELSE /\ Threw'
                       /\ err'.what = "Rating must be between 0 and 5"
                       /\ drivers' = drivers
      ]_vars

\* a construction has just been refused while a driver rated 5.0 exists
C4_Witness ==
    /\ Threw
    /\ err.what = "Rating must be between 0 and 5"
    /\ drivers # <<>>
    /\ drivers[1].rating = 5000

\* the records viewRides writes for the first n requestRide calls that
\* returned: each is what rideDetails writes for that ride at that point
RECURSIVE RequestedRecords(_, _)
RequestedRecords(p, n) ==
    IF n = 0 THEN <<>>
    ELSE RequestedRecords(p, n - 1)
         \o RideDetailsOut(rides[reqLog[p][n]], IF n = 1 THEN cout ELSE SetFixed2(cout))

\* what viewRides writes after whatever precedes it, by the claim
ViewRidesBody(p) ==
    IF reqLog[p] = <<>> THEN <<Sentinel, "\n">>
    ELSE RequestedRecords(p, Len(reqLog[p]))

\* C6 as stated: for a rider with no requested ride the sentinel line is all
\* that viewRides writes; otherwise it writes no sentinel but the rideDetails
\* record of each ride, one per requestRide call that returned, in call order.
C6_SentinelIsWholeOutput ==
    [][\A p \in DOMAIN riders :
            ViewRides(p) =>
                /\ out' = ViewRidesBody(p)
                /\ (Sentinel \in Range(out')) <=> (riders[p].requestedRides = <<>>)
      ]_vars

\* C6 amended: viewRides first writes the rider's header (id, name,
\* "Requested Rides History:"); after the header it writes the sentinel line
\* and nothing else exactly when the history is empty, and otherwise no
\* sentinel but the rideDetails record of each ride, one per requestRide call
\* that returned, in call order.
C6_HeaderThenSentinelOrRecords ==
    [][\A p \in DOMAIN riders :
            ViewRides(p) =>
                /\ out' = << "Rider ID: ", IntStr(riders[p].riderID),
                             "\nName: ", riders[p].name,
                             "\nRequested Rides History:", "\n" >>
                          \o ViewRidesBody(p)
                /\ (Sentinel \in Range(out')) <=> (riders[p].requestedRides = <<>>)
                /\ UNCHANGED <<rides, drivers, riders>>
      ]_vars

\* viewRides has written the records of two different requested rides
C6_Witness ==
    /\ riders # <<>>
    /\ Len(reqLog[1]) = 2
    /\ reqLog[1][1] # reqLog[1][2]
    /\ rides[reqLog[1][1]] # rides[reqLog[1][2]]
    /\ out # <<>>
    /\ out[1] = "Rider ID: "
    /\ Sentinel \notin Range(out)
    /\ Len(out) > Len(RiderHeader(riders[1])) + Len(RideDetailsOut(rides[1], cout))

\* C7: a ride's fare is 0 until calculateFare first runs on it, and a step
\* changes a ride's fare only if it is calculateFare on that very ride.
C7_FareOnlyByCalculateFare ==
    [][/\ \A r \in 1..Len(rides') : firstFare'[r] = <<>> => rides'[r].fare = 0
       /\ \A r \in Handles : rides'[r].fare # rides[r].fare => CalculateFare(r)
      ]_vars

\* a ride held by the driver and by the rider still has the fare 0 after
\* printing calls and after calculateFare on another ride
C7_Witness ==
    \E r, q \in Handles :
        /\ r # q
        /\ getFare(r) = 0 /\ firstFare[r] = <<>>
        /\ getFare(q) > 0
        /\ drivers # <<>> /\ r \in Range(drivers[1].assignedRides)
        /\ riders # <<>> /\ r \in Range(riders[1].requestedRides)
        /\ cout.fixed

\* C8: after its first calculateFare a ride's fare stays the value that
\* first call gave it, whatever calls follow, calculateFare again included.
C8_CalculateFareIdempotent ==
    \A r \in Handles : firstFare[r] # <<>> => getFare(r) = firstFare[r][1]

\* calculateFare has just run again on a ride that a history holds, after a
\* printing call
C8_Witness ==
    /\ recalc # Null
    /\ getFare(recalc) > 0
    /\ getFare(recalc) = firstFare[recalc][1]
    /\ drivers # <<>> /\ recalc \in Range(drivers[1].assignedRides)
    /\ cout.fixed

\* C9: rideDetails changes no ride, driver or rider, and what it writes is
\* determined by the ride alone: it is the record the same call writes when
\* no printing call has run before it.
C9_RideDetailsPureRead ==
    [][\A r \in Handles :
            RideDetails(r) =>
                /\ UNCHANGED <<rides, drivers, riders>>
                /\ out' = RideDetailsOut(rides[r], InitialStream)
      ]_vars

=============================================================================
